---------------------------- MODULE Spec2Model ----------------------------
(* A model of pytest-webstage: the stage/step tree, the synchronous stage  *)
(* facade over a driver session, the run-in-executor facade derived from   *)
(* it, readiness polling, test-variant generation and the browser fixture. *)
EXTENDS Integers, Sequences, FiniteSets, TLC

(***************************************************************************)
(* Bounds of the model.                                                    *)
(***************************************************************************)
MaxSteps == 3        \* step(...) calls made during one test
MaxHist == 2         \* entries of the session's navigation history
MaxGo == 2           \* |n| of a history offset passed to go
MaxFuel == 2         \* driver commands a failing session still serves

VARIABLES
    stages,      \* WebStage objects, by identity: <<[sync, parent, description, children]>>
    cms,         \* context managers returned by step(...)
    declared,    \* history: the steps entered on the root, in order
    driver,      \* the driver session behind the SyncWebStage
    lastOp,      \* the facade operation performed last
    lastOut,     \* what it returned or raised
    gen,         \* one call of pytest_generate_tests: its inputs and its outcome
    fx,          \* the test invocation under way: its fixtures and its phase
    sessions,    \* the browser sessions started so far
    sy,          \* a thread inside SyncWebStage.until_ready
    el,          \* the event loop: a task inside WebStage.until_ready, and another task
    aw           \* a coroutine that awaits calls of the WebStage facade, one at a time

stepVars == <<stages, cms, declared>>
navVars == <<driver, lastOp, lastOut>>
fixtureVars == <<fx, sessions>>
readyVars == <<sy, el>>
vars == <<stages, cms, declared, driver, lastOp, lastOut, gen, fx, sessions, sy, el, aw>>
nonStepVars == <<navVars, gen, fixtureVars, readyVars, aw>>
nonNavVars == <<stepVars, gen, fixtureVars, readyVars, aw>>
nonGenVars == <<stepVars, navVars, fixtureVars, readyVars, aw>>
nonFixtureVars == <<stepVars, navVars, gen, readyVars, aw>>
nonReadyVars == <<stepVars, lastOp, lastOut, gen, fixtureVars, aw>>
nonAsyncVars == <<stepVars, lastOp, lastOut, gen, fixtureVars, readyVars>>

(***************************************************************************)
(* Python values.                                                          *)
(***************************************************************************)
None == [cls |-> "NoneType"]
Str(s) == [cls |-> "str", v |-> s]
Int_(n) == [cls |-> "int", v |-> n]
Bool(b) == [cls |-> "bool", v |-> b]
List(items) == [cls |-> "list", items |-> items]
Ret(v) == [kind |-> "return", value |-> v]
Raise(e) == [kind |-> "raise", exc |-> e]


(***************************************************************************)
(* The stage tree: WebStage.__init__, fromdriver and step.                 *)
(***************************************************************************)
NoStage == 0         \* parent = None
Root == 1            \* the stage the webstage fixture builds with fromdriver
Descriptions == {"a", "b"}
BlockErrors == {"AssertionError"}
NestingError == [type |-> "TypeError", msg |-> "stages could not be nested"]

SyncWebStage__init__(drv) == [cls |-> "SyncWebStage", driver |-> drv]

WebStage__init__(sync, parent, description) ==
    [sync |-> sync, parent |-> parent, description |-> description, children |-> <<>>]

fromdriver(drv) == WebStage__init__(SyncWebStage__init__(drv), NoStage, None)

\* Truth value of self.parent: None is false, a WebStage (no __bool__, no __len__) is true.
Truthy(parent) == parent # NoStage

\* Mutants of the generator body.
StepBodyNoCheck(st, self, description) ==
    LET new == Len(st) + 1
        child == WebStage__init__(st[self].sync, self, Str(description))
    IN  [stages |-> [Append(st, child) EXCEPT ![self].children = Append(@, new)],
         out |-> [kind |-> "yield", stage |-> new]]

StepBodyChecksChildren(st, self, description) ==
    IF st[self].children # <<>>
    THEN [stages |-> st, out |-> Raise(NestingError)]
    ELSE StepBodyNoCheck(st, self, description)

StepBodyPrepends(st, self, description) ==
    IF Truthy(st[self].parent)
    THEN [stages |-> st, out |-> Raise(NestingError)]
    ELSE LET new == Len(st) + 1
             child == WebStage__init__(st[self].sync, self, Str(description))
         IN  [stages |-> [Append(st, child) EXCEPT ![self].children = <<new>> \o @],
              out |-> [kind |-> "yield", stage |-> new]]

\* The body of the generator function step, from its start to its yield.
StepBody(st, self, description) ==
    IF Truthy(st[self].parent)
    THEN [stages |-> st, out |-> Raise(NestingError)]
    ELSE LET new == Len(st) + 1
             child == WebStage__init__(st[self].sync, self, Str(description))
         IN  [stages |-> [Append(st, child) EXCEPT ![self].children = Append(@, new)],
              out |-> [kind |-> "yield", stage |-> new]]

\* Mutant of the call: the check made by the call itself, not by the generator.
stepEager(st, self, description) ==
    IF Truthy(st[self].parent)
    THEN [self |-> self, description |-> description, state |-> "raised",
          yielded |-> NoStage, error |-> NestingError, raisedAt |-> "call",
          propagated |-> "none"]
    ELSE [self |-> self, description |-> description, state |-> "created",
          yielded |-> NoStage, error |-> None, raisedAt |-> "never",
          propagated |-> "none"]

\* The call self.step(description): @contextmanager wraps the generator function, so
\* the call builds the generator and its context manager and runs none of the body.
step(st, self, description) ==
    [self |-> self, description |-> description, state |-> "created",
     yielded |-> NoStage, error |-> None, raisedAt |-> "never", propagated |-> "none"]

CallStep(s, d) ==
    /\ Len(cms) < MaxSteps
    /\ cms' = Append(cms, step(stages, s, d))
    /\ UNCHANGED <<stages, declared, nonStepVars>>

\* __enter__ of the context manager (entry into the with block): next(gen).
Enter(c) ==
    /\ cms[c].state = "created"
    /\ LET r == StepBody(stages, cms[c].self, cms[c].description)
       IN  IF r.out.kind = "raise"
           THEN /\ cms' = [cms EXCEPT ![c].state = "raised", ![c].error = r.out.exc,
                                      ![c].raisedAt = "enter"]
                /\ stages' = r.stages
                /\ UNCHANGED declared
           ELSE /\ cms' = [cms EXCEPT ![c].state = "entered", ![c].yielded = r.out.stage]
                /\ stages' = r.stages
                /\ declared' = Append(declared,
                       [self |-> cms[c].self, description |-> cms[c].description,
                        child |-> r.out.stage])
    /\ UNCHANGED nonStepVars

\* __exit__ after a block that ended normally: next(gen) runs off the end of the body.
ExitNormal(c) ==
    /\ cms[c].state = "entered"
    /\ cms' = [cms EXCEPT ![c].state = "exited"]
    /\ UNCHANGED <<stages, declared, nonStepVars>>

\* __exit__ after a block that raised e: gen.throw(e) re-raises at the yield, and the
\* exception leaves the with statement.
ExitRaise(c, e) ==
    /\ cms[c].state = "entered"
    /\ cms' = [cms EXCEPT ![c].state = "exited", ![c].propagated = e]
    /\ UNCHANGED <<stages, declared, nonStepVars>>


StepIdle ==
    /\ stages = <<fromdriver("driver#1")>>
    /\ cms = <<>>
    /\ declared = <<>>

StepNext ==
    \/ \E s \in 1..Len(stages), d \in Descriptions : CallStep(s, d)
    \/ \E c \in 1..Len(cms) : Enter(c)
    \/ \E c \in 1..Len(cms) : ExitNormal(c)
    \/ \E c \in 1..Len(cms), e \in BlockErrors : ExitRaise(c, e)


(***************************************************************************)
(* The driver session (selenium's WebDriver): the collaborator the sync    *)
(* facade sequences calls to.  d.log holds the calls issued to it; d.fuel  *)
(* is the number of commands the session still serves before every further *)
(* command raises (Healthy: it never fails).                               *)
(***************************************************************************)
Healthy == -1
Blank == "about:blank"
URLs == {"u1", "u2"}
Selectors == {"a", "p", "x", "a["}
Elements == {"e1", "e2", "e3"}
SessionError == "WebDriverException"
CookieSid == [name |-> "sid", value |-> "1", path |-> "/", sameSite |-> "Lax"]
CookieTheme == [name |-> "theme", value |-> "dark", path |-> "/", sameSite |-> "None"]
CookieNames == {"sid", "theme", "missing"}
Jars == {<<>>, <<CookieSid>>, <<CookieTheme, CookieSid>>}

ValidSelector(sel) == sel # "a["

CurrentUrl(d) == IF d.pos = 0 THEN Blank ELSE d.hist[d.pos]

\* Elements of the document at url matching sel, in document order.
DocMatches(url, sel) ==
    CASE url = "u1" /\ sel = "a" -> <<"e1", "e2">>
      [] url = "u1" /\ sel = "p" -> <<"e3">>
      [] url = "u2" /\ sel = "a" -> <<"e2">>
      [] OTHER -> <<>>

OnPage(url) ==
    CASE url = "u1" -> {"e1", "e2", "e3"}
      [] url = "u2" -> {"e2"}
      [] OTHER -> {}

\* Descendants of element e matching sel, in document order.
ElemMatches(url, e, sel) ==
    CASE url = "u1" /\ e = "e1" /\ sel = "a" -> <<"e2">>
      [] url = "u1" /\ e = "e1" /\ sel = "p" -> <<"e3">>
      [] OTHER -> <<>>

Down(d) == d.fuel = 0

Issue(d, op, arg) ==
    [d EXCEPT !.log = Append(@, [op |-> op, arg |-> arg]),
              !.fuel = IF @ > 0 THEN @ - 1 ELSE @]

driver_forward(d) ==
    IF Down(d) THEN [d |-> Issue(d, "forward", ""), out |-> Raise(SessionError)]
    ELSE [d |-> [Issue(d, "forward", "") EXCEPT !.pos = IF @ < Len(d.hist) THEN @ + 1 ELSE @],
          out |-> Ret(None)]

driver_back(d) ==
    IF Down(d) THEN [d |-> Issue(d, "back", ""), out |-> Raise(SessionError)]
    ELSE [d |-> [Issue(d, "back", "") EXCEPT !.pos = IF @ > 0 THEN @ - 1 ELSE @],
          out |-> Ret(None)]

driver_get(d, url) ==
    IF Down(d) THEN [d |-> Issue(d, "get", url), out |-> Raise(SessionError)]
    ELSE [d |-> [Issue(d, "get", url) EXCEPT !.hist = Append(SubSeq(d.hist, 1, d.pos), url),
                                              !.pos = @ + 1, !.ready = FALSE],
          out |-> Ret(None)]

driver_refresh(d) ==
    IF Down(d) THEN [d |-> Issue(d, "refresh", ""), out |-> Raise(SessionError)]
    ELSE [d |-> [Issue(d, "refresh", "") EXCEPT !.ready = FALSE], out |-> Ret(None)]

driver_current_url(d) ==
    IF Down(d) THEN [d |-> Issue(d, "current_url", ""), out |-> Raise(SessionError)]
    ELSE [d |-> Issue(d, "current_url", ""), out |-> Ret(CurrentUrl(d))]

driver_get_screenshot_as_png(d) ==
    IF Down(d) THEN [d |-> Issue(d, "get_screenshot_as_png", ""), out |-> Raise(SessionError)]
    ELSE [d |-> Issue(d, "get_screenshot_as_png", ""),
          out |-> Ret([cls |-> "bytes", of |-> CurrentUrl(d)])]

driver_execute_script(d, script) ==
    IF Down(d) THEN [d |-> Issue(d, "execute_script", script), out |-> Raise(SessionError)]
    ELSE [d |-> Issue(d, "execute_script", script), out |-> Ret(d.ready)]

\* find_element(By.CSS_SELECTOR, sel) on the document.
driver_find_element(d, sel) ==
    LET m == DocMatches(CurrentUrl(d), sel)
        d2 == Issue(d, "find_element", sel)
    IN  IF Down(d) THEN [d |-> d2, out |-> Raise(SessionError)]
        ELSE IF ~ValidSelector(sel) THEN [d |-> d2, out |-> Raise("InvalidSelectorException")]
        ELSE IF m = <<>> THEN [d |-> d2, out |-> Raise("NoSuchElementException")]
        ELSE [d |-> d2, out |-> Ret(Head(m))]

driver_find_elements(d, sel) ==
    LET d2 == Issue(d, "find_elements", sel)
    IN  IF Down(d) THEN [d |-> d2, out |-> Raise(SessionError)]
        ELSE IF ~ValidSelector(sel) THEN [d |-> d2, out |-> Raise("InvalidSelectorException")]
        ELSE [d |-> d2, out |-> Ret(DocMatches(CurrentUrl(d), sel))]

\* find_element(By.CSS_SELECTOR, sel) on the element e.
element_find_element(d, e, sel) ==
    LET m == ElemMatches(CurrentUrl(d), e, sel)
        d2 == Issue(d, "element.find_element", sel)
    IN  IF Down(d) THEN [d |-> d2, out |-> Raise(SessionError)]
        ELSE IF e \notin OnPage(CurrentUrl(d))
             THEN [d |-> d2, out |-> Raise("StaleElementReferenceException")]
        ELSE IF ~ValidSelector(sel) THEN [d |-> d2, out |-> Raise("InvalidSelectorException")]
        ELSE IF m = <<>> THEN [d |-> d2, out |-> Raise("NoSuchElementException")]
        ELSE [d |-> d2, out |-> Ret(Head(m))]

JarNamed(jar, name) == SelectSeq(jar, LAMBDA c : c.name = name)

\* get_cookie(name): the cookie's dict, or None when the session has no such cookie.
driver_get_cookie(d, name) ==
    LET d2 == Issue(d, "get_cookie", name)
    IN  IF Down(d) THEN [d |-> d2, out |-> Raise(SessionError)]
        ELSE IF JarNamed(d.jar, name) = <<>> THEN [d |-> d2, out |-> Ret(None)]
        ELSE [d |-> d2, out |-> Ret([cls |-> "dict", d |-> Head(JarNamed(d.jar, name))])]

driver_get_cookies(d) ==
    IF Down(d) THEN [d |-> Issue(d, "get_cookies", ""), out |-> Raise(SessionError)]
    ELSE [d |-> Issue(d, "get_cookies", ""), out |-> Ret(d.jar)]


(***************************************************************************)
(* Element, SyncElement, Cookie and the synchronous facade SyncWebStage.   *)
(* Every operation maps a session d to [d |-> the session after it,        *)
(* out |-> what it returned or raised].                                    *)
(***************************************************************************)
SyncElement(e) == [cls |-> "SyncElement", e |-> e]
Element(e) == [cls |-> "Element", e |-> e]

Cookie_fromdict(c) ==
    [cls |-> "Cookie", name |-> c.name, value |-> c.value, same_site |-> c.sameSite]

\* for _ in range(n): self.driver.forward()
RECURSIVE Forwards(_, _)
Forwards(d, n) ==
    IF n <= 0 THEN [d |-> d, out |-> Ret(None)]
    ELSE LET r == driver_forward(d)
         IN  IF r.out.kind = "raise" THEN r ELSE Forwards(r.d, n - 1)

\* for _ in range(n): self.driver.back()
RECURSIVE Backs(_, _)
Backs(d, n) ==
    IF n <= 0 THEN [d |-> d, out |-> Ret(None)]
    ELSE LET r == driver_back(d)
         IN  IF r.out.kind = "raise" THEN r ELSE Backs(r.d, n - 1)

Abs(n) == IF n < 0 THEN 0 - n ELSE n

\* Mutant: range(name) instead of range(abs(name)) on the way back.
SyncWebStage_goNoAbs(d, name) ==
    IF name.cls = "int"
    THEN IF name.v > 0 THEN Forwards(d, name.v)
         ELSE IF name.v < 0 THEN Backs(d, name.v)
         ELSE [d |-> d, out |-> Ret(None)]
    ELSE driver_get(d, name.v)

SyncWebStage_go(d, name) ==
    IF name.cls = "int"
    THEN IF name.v > 0 THEN Forwards(d, name.v)
         ELSE IF name.v < 0 THEN Backs(d, Abs(name.v))
         ELSE [d |-> d, out |-> Ret(None)]
    ELSE driver_get(d, name.v)

SyncWebStage_query_selector(d, selector) ==
    LET r == driver_find_elements(d, selector)
    IN  IF r.out.kind = "raise" THEN r
        ELSE [d |-> r.d,
              out |-> Ret(List([i \in 1..Len(r.out.value) |->
                                    Element(SyncElement(r.out.value[i]))]))]

\* Mutant: except Exception instead of except NoSuchElementException.
SyncWebStage_query_selector_oneCatchAll(d, selector) ==
    LET r == driver_find_element(d, selector)
    IN  IF r.out.kind = "raise" THEN [d |-> r.d, out |-> Ret(None)]
        ELSE [d |-> r.d, out |-> Ret(Element(SyncElement(r.out.value)))]

SyncWebStage_query_selector_one(d, selector) ==
    LET r == driver_find_element(d, selector)
    IN  IF r.out.kind = "raise"
        THEN IF r.out.exc = "NoSuchElementException"
             THEN [d |-> r.d, out |-> Ret(None)]
             ELSE r
        ELSE [d |-> r.d, out |-> Ret(Element(SyncElement(r.out.value)))]

SyncElement_query_selector_one(d, e, selector) ==
    LET r == element_find_element(d, e, selector)
    IN  IF r.out.kind = "raise"
        THEN IF r.out.exc = "NoSuchElementException"
             THEN [d |-> r.d, out |-> Ret(None)]
             ELSE r
        ELSE [d |-> r.d, out |-> Ret(Element(SyncElement(r.out.value)))]

SyncWebStage_href(d) ==
    LET r == driver_current_url(d)
    IN  IF r.out.kind = "raise" THEN r ELSE [d |-> r.d, out |-> Ret(Str(r.out.value))]

SyncWebStage_refresh(d) == driver_refresh(d)

SyncWebStage_screenshot(d) == driver_get_screenshot_as_png(d)

SyncWebStage_is_ready(d) ==
    LET r == driver_execute_script(d, "return document.readyState === 'complete'")
    IN  IF r.out.kind = "raise" THEN r ELSE [d |-> r.d, out |-> Ret(Bool(r.out.value))]

SyncWebStage_capture_cookies(d) ==
    LET r == driver_get_cookies(d)
    IN  IF r.out.kind = "raise" THEN r
        ELSE [d |-> r.d, out |-> Ret(List([i \in 1..Len(r.out.value) |->
                                               Cookie_fromdict(r.out.value[i])]))]

SyncWebStage_get_cookie(d, name) ==
    LET r == driver_get_cookie(d, name)
    IN  IF r.out.kind = "raise" THEN r
        ELSE IF r.out.value = None THEN [d |-> r.d, out |-> Ret(None)]
        ELSE [d |-> r.d, out |-> Ret(Cookie_fromdict(r.out.value.d))]

\* The operation named fn of the sync facade, applied to args.
SyncCall(d, fn, args) ==
    CASE fn = "go" -> SyncWebStage_go(d, args[1])
      [] fn = "query_selector" -> SyncWebStage_query_selector(d, args[1].v)
      [] fn = "query_selector_one" -> SyncWebStage_query_selector_one(d, args[1].v)
      [] fn = "href" -> SyncWebStage_href(d)
      [] fn = "refresh" -> SyncWebStage_refresh(d)
      [] fn = "screenshot" -> SyncWebStage_screenshot(d)
      [] fn = "is_ready" -> SyncWebStage_is_ready(d)
      [] fn = "capture_cookies" -> SyncWebStage_capture_cookies(d)
      [] fn = "get_cookie" -> SyncWebStage_get_cookie(d, args[1].v)
      [] fn = "element.query_selector_one" ->
             SyncElement_query_selector_one(d, args[1].v, args[2].v)

GoTargets == {Int_(n) : n \in (0 - MaxGo)..MaxGo} \cup {Str(u) : u \in URLs}

\* The session of a browser that was just started.
FreshSession ==
    [hist |-> <<>>, pos |-> 0, jar |-> <<>>, ready |-> FALSE, fuel |-> Healthy,
     log |-> <<>>]

\* The session as a test finds it: a fresh history, any cookie jar.
Sessions ==
    [hist : {<<>>}, pos : {0}, jar : Jars, ready : BOOLEAN, fuel : {Healthy},
     log : {<<>>}]

\* One call of the sync facade by the test.
Perform(fn, args) ==
    LET r == SyncCall([driver EXCEPT !.log = <<>>], fn, args)
    IN  /\ driver' = r.d
        /\ lastOut' = r.out
        /\ lastOp' = [fn |-> fn, args |-> args, pre |-> [driver EXCEPT !.log = <<>>]]
        /\ UNCHANGED nonNavVars

Go(name) ==
    /\ name.cls = "str" => driver.pos < MaxHist
    /\ Perform("go", <<name>>)

QuerySelector(sel) ==
    /\ Perform("query_selector", <<Str(sel)>>)

QuerySelectorOne(sel) ==
    /\ Perform("query_selector_one", <<Str(sel)>>)

ElementQuerySelectorOne(e, sel) ==
    /\ Perform("element.query_selector_one", <<Str(e), Str(sel)>>)

Href ==
    /\ Perform("href", <<>>)

Refresh ==
    /\ Perform("refresh", <<>>)

Screenshot ==
    /\ Perform("screenshot", <<>>)

IsReady ==
    /\ Perform("is_ready", <<>>)

CaptureCookies ==
    /\ Perform("capture_cookies", <<>>)

GetCookie(name) ==
    /\ Perform("get_cookie", <<Str(name)>>)

\* The document reaches readyState complete.
PageLoaded ==
    /\ ~driver.ready
    /\ driver' = [driver EXCEPT !.ready = TRUE]
    /\ UNCHANGED <<lastOp, lastOut, nonNavVars>>

\* The session starts to fail: it serves k more commands.
Degrade(k) ==
    /\ driver.fuel = Healthy
    /\ driver' = [driver EXCEPT !.fuel = k]
    /\ UNCHANGED <<lastOp, lastOut, nonNavVars>>

NoOp == [fn |-> "none", args |-> <<>>, pre |-> None]

NavIdle ==
    /\ lastOp = NoOp
    /\ lastOut = Ret(None)

NavNext ==
    \/ \E name \in GoTargets : Go(name)
    \/ \E sel \in Selectors : QuerySelector(sel)
    \/ \E sel \in Selectors : QuerySelectorOne(sel)
    \/ \E e \in Elements, sel \in Selectors : ElementQuerySelectorOne(e, sel)
    \/ Href
    \/ Refresh
    \/ Screenshot
    \/ IsReady
    \/ CaptureCookies
    \/ \E name \in CookieNames : GetCookie(name)
    \/ PageLoaded
    \/ \E k \in 0..MaxFuel : Degrade(k)

(***************************************************************************)
(* pytest_generate_tests: the variants of the browser_config fixture, from *)
(* the command line and from the configuration file read by read_config.   *)
(***************************************************************************)
MaxBrowserArgs == 2  \* names given to --browser

ALL_SUPPORTED_BROWSERS == {"firefox", "chrome"}
BrowserNames == {"firefox", "chrome", "safari"}
NotGiven == <<"<None>">>     \* getoption's default for an option that was not given
VersionOptions == {NotGiven, <<"stable">>, <<"120", "121">>}
CachePolicies == {"always", "auto", "no"}

\* conf.Browser(browser, version = "stable")
Browser(browser, version) == [browser |-> browser, version |-> version]

ConfiguredBrowsers ==
    {<<>>, <<Browser("firefox", "stable")>>, <<Browser("chrome", "120")>>,
     <<Browser("safari", "stable")>>,
     <<Browser("chrome", "stable"), Browser("firefox", "120")>>}

\* webstage.toml as read_config finds it: not there, or its [tool.webstage] table.
ConfigFiles ==
    {[found |-> FALSE, cached_browsers |-> "auto", browsers |-> <<>>]}
    \cup [found : {TRUE}, cached_browsers : CachePolicies, browsers : ConfiguredBrowsers]

read_config(file) ==
    IF file.found
    THEN Ret([cached_browsers |-> file.cached_browsers, browsers |-> file.browsers])
    ELSE Raise("FileNotFoundError")

Range(f) == {f[i] : i \in DOMAIN f}

BrowserArgs == UNION {[1..n -> BrowserNames] : n \in 0..MaxBrowserArgs}

\* The orders in which a for loop can visit the set S.
Orders(S) == {o \in [1..Cardinality(S) -> S] : Range(o) = S}

\* getoption(f"{name}_version", None) or ["stable"]
VersionsOf(g, name) ==
    LET given == IF name = "firefox" THEN g.firefox_version
                 ELSE IF name = "chrome" THEN g.chrome_version
                 ELSE NotGiven
    IN  IF given = NotGiven \/ given = <<>> THEN <<"stable">> ELSE given

\* zip(repeat(name), versions, repeat("auto"))
Zip(name, versions) == [i \in 1..Len(versions) |-> <<name, versions[i], "auto">>]

\* The loop over browser_names, visited in the order names.
RECURSIVE FromCommandLine(_, _)
FromCommandLine(g, names) ==
    IF names = <<>> THEN <<>>
    ELSE Zip(Head(names), VersionsOf(g, Head(names))) \o FromCommandLine(g, Tail(names))

\* The loop over conf.browsers: the variants it appends, or the first unsupported name.
RECURSIVE FromConfig(_, _)
FromConfig(conf, browsers) ==
    IF browsers = <<>> THEN Ret(<<>>)
    ELSE IF Head(browsers).browser \notin ALL_SUPPORTED_BROWSERS
         THEN Raise("ValueError")
         ELSE LET rest == FromConfig(conf, Tail(browsers))
              IN  IF rest.kind = "raise" THEN rest
                  ELSE Ret(<<<<Head(browsers).browser, Head(browsers).version,
                               conf.cached_browsers>>>> \o rest.value)

Ids(variants) ==
    [i \in 1..Len(variants) |-> <<variants[i][1], "(", variants[i][2], ")">>]

\* The body of pytest_generate_tests for a test that requests browser_config. The else
\* of the for loop runs whenever the loop ends without break: every time.
generate_tests(g, order) ==
    LET browser_names == Range(g.browser)
        unsupported_names == browser_names \ ALL_SUPPORTED_BROWSERS
    IN  IF unsupported_names # {} THEN Raise("ValueError")
        ELSE LET cmd == FromCommandLine(g, order)
                 conf == read_config(g.file)
             IN  IF conf.kind = "raise" THEN conf
                 ELSE LET more == FromConfig(conf.value, conf.value.browsers)
                      IN  IF more.kind = "raise" THEN more
                          ELSE [kind |-> "parametrize",
                                variants |-> cmd \o more.value,
                                ids |-> Ids(cmd \o more.value)]

GenInputs ==
    [requested : BOOLEAN, browser : BrowserArgs, firefox_version : VersionOptions,
     chrome_version : VersionOptions, file : ConfigFiles, state : {"collected"},
     out : {[kind |-> "none"]}]

\* pytest_generate_tests for a test function that requests browser_config.
GenerateTests(order) ==
    /\ gen.state = "collected"
    /\ gen.requested
    /\ gen' = [gen EXCEPT !.state = "generated", !.out = generate_tests(gen, order)]
    /\ UNCHANGED nonGenVars

\* pytest_generate_tests for a test function that does not.
GenerateNothing ==
    /\ gen.state = "collected"
    /\ ~gen.requested
    /\ gen' = [gen EXCEPT !.state = "generated"]
    /\ UNCHANGED nonGenVars

GenIdle ==
    gen = [requested |-> FALSE, browser |-> <<>>, firefox_version |-> NotGiven,
           chrome_version |-> NotGiven,
           file |-> [found |-> FALSE, cached_browsers |-> "auto", browsers |-> <<>>],
           state |-> "generated", out |-> [kind |-> "none"]]

GenNext ==
    \/ \E order \in Orders(Range(gen.browser)) : GenerateTests(order)
    \/ GenerateNothing

(***************************************************************************)
(* The browser and webstage fixtures, run by pytest once per test          *)
(* invocation: setup up to the yield, the test, then the finalizer that    *)
(* resumes the generator.                                                  *)
(***************************************************************************)
MaxTests == 2        \* test invocations of the run

Services == {"FirefoxService", "ChromeService", "Service"}
Outcomes == {"passed", "failed", "aborted"}
NoSession == 0

\* The headless options of the command line (store_true: False unless given).
HeadlessOptions ==
    [firefox_headless : BOOLEAN, chrome_headless : BOOLEAN, browser_headless : BOOLEAN]

\* getoption(f"{name}_headless", None) is never None for a store_true option.
check_headless(opts, name) ==
    IF name = "firefox" THEN opts.firefox_headless ELSE opts.chrome_headless

\* The browser fixture up to its yield: the driver it starts, or what it raises.
\* started: whether the driver's constructor could start the session.
browser(serv, opts, started) ==
    IF serv = "FirefoxService"
    THEN IF started
         THEN [kind |-> "yield",
               session |-> [browser |-> "firefox",
                            arguments |-> IF check_headless(opts, "firefox")
                                          THEN <<"-headless">> ELSE <<>>,
                            open |-> TRUE]]
         ELSE Raise("SessionNotCreatedException")
    ELSE IF serv = "ChromeService"
    THEN IF started
         THEN [kind |-> "yield",
               session |-> [browser |-> "chrome",
                            arguments |-> IF check_headless(opts, "chrome")
                                          THEN <<"--headless=new">> ELSE <<>>,
                            open |-> TRUE]]
         ELSE Raise("SessionNotCreatedException")
    ELSE Raise("ValueError")

\* Mutant: yield the driver outside a with block, so nothing quits it.
browser_resumeNoWith(ss, id) == ss

\* The browser fixture resumed after its yield: the with block ends and the driver's
\* __exit__ quits the session.
browser_resume(ss, id) == [ss EXCEPT ![id].open = FALSE]

NewTest(item, opts) ==
    [item |-> item, opts |-> opts, phase |-> "setup_browser", outcome |-> "none",
     generator |-> "none", driver |-> NoSession, stage |-> None]

\* Setup of the browser fixture.
SetupBrowser(serv, started) ==
    /\ fx.phase = "setup_browser"
    /\ LET r == browser(serv, fx.opts, started)
       IN  IF r.kind = "yield"
           THEN /\ sessions' = Append(sessions, r.session)
                /\ fx' = [fx EXCEPT !.phase = "setup_webstage", !.generator = "suspended",
                                    !.driver = Len(sessions) + 1]
           ELSE /\ fx' = [fx EXCEPT !.phase = "teardown", !.outcome = "error"]
                /\ UNCHANGED sessions
    /\ UNCHANGED nonFixtureVars

\* Setup of the webstage fixture: WebStage.fromdriver(browser).
SetupWebstage ==
    /\ fx.phase = "setup_webstage"
    /\ fx' = [fx EXCEPT !.phase = "call", !.stage = fromdriver(fx.driver)]
    /\ UNCHANGED <<sessions, nonFixtureVars>>

\* The test function ends: it returns, raises, or is interrupted.
TestEnds(outcome) ==
    /\ fx.phase = "call"
    /\ fx' = [fx EXCEPT !.phase = "teardown", !.outcome = outcome]
    /\ UNCHANGED <<sessions, nonFixtureVars>>

\* pytest runs the finalizers of the fixtures that were set up.
Teardown ==
    /\ fx.phase = "teardown"
    /\ IF fx.generator = "suspended"
       THEN /\ sessions' = browser_resume(sessions, fx.driver)
            /\ fx' = [fx EXCEPT !.phase = "finished", !.generator = "finished"]
       ELSE /\ fx' = [fx EXCEPT !.phase = "finished"]
            /\ UNCHANGED sessions
    /\ UNCHANGED nonFixtureVars

\* The next test invocation of the run (an interrupted run has none).
NextTest ==
    /\ fx.phase = "finished"
    /\ fx.outcome # "aborted"
    /\ fx.item < MaxTests
    /\ fx' = NewTest(fx.item + 1, fx.opts)
    /\ UNCHANGED <<sessions, nonFixtureVars>>

FixtureIdle ==
    /\ fx = [NewTest(0, [firefox_headless |-> FALSE, chrome_headless |-> FALSE,
                         browser_headless |-> FALSE])
                EXCEPT !.phase = "finished", !.outcome = "aborted"]
    /\ sessions = <<>>

FixtureNext ==
    \/ \E serv \in Services, started \in BOOLEAN : SetupBrowser(serv, started)
    \/ SetupWebstage
    \/ \E outcome \in Outcomes : TestEnds(outcome)
    \/ Teardown
    \/ NextTest

(***************************************************************************)
(* until_ready, blocking and on the event loop.  The event loop runs the   *)
(* task at the head of its queue until the task suspends; sleep(0) puts    *)
(* the task back at the tail; the result of a run_in_executor future       *)
(* reaches the loop as a callback that wakes the awaiting task.            *)
(***************************************************************************)
\* Mutant: while self.is_ready() instead of while not self.is_ready().
SyncWebStage_until_readyInverted(out) ==
    IF out.kind = "raise" THEN "raised"
    ELSE IF out.value.v THEN "sleep"
    ELSE "returned"

\* One turn of `while not self.is_ready(): time.sleep(0)`, given what is_ready gave.
SyncWebStage_until_ready(out) ==
    IF out.kind = "raise" THEN "raised"
    ELSE IF ~out.value.v THEN "sleep"
    ELSE "returned"

\* One turn of `while not (await self.is_ready()): await sleep(0)`, given the outcome
\* of the awaited future.
WebStage_until_ready(out) ==
    IF out.kind = "raise" THEN "raised"
    ELSE IF ~out.value.v THEN "slept"
    ELSE "returned"

Seen(out) ==
    IF out.kind = "raise" THEN "raised" ELSE IF out.value.v THEN "ready" ELSE "unready"

\* SyncWebStage.until_ready: self.is_ready()
SyncPoll ==
    /\ sy.pc = "poll"
    /\ LET r == SyncWebStage_is_ready([driver EXCEPT !.log = <<>>])
       IN  /\ driver' = r.d
           /\ sy' = [pc |-> SyncWebStage_until_ready(r.out), last |-> Seen(r.out)]
    /\ UNCHANGED <<el, nonReadyVars>>

\* SyncWebStage.until_ready: time.sleep(0)
SyncSleep ==
    /\ sy.pc = "sleep"
    /\ sy' = [sy EXCEPT !.pc = "poll"]
    /\ UNCHANGED <<driver, el, nonReadyVars>>

Running(task) == el.queue # <<>> /\ Head(el.queue) = task

\* WebStage.until_ready: self.is_ready() hands the call to the executor, and the task
\* suspends on the future.
AsyncPoll ==
    /\ Running("poller")
    /\ el.pc \in {"start", "slept"}
    /\ el' = [el EXCEPT !.queue = Tail(@), !.pc = "awaiting", !.job = "pending",
                        !.yielded = IF el.pc = "slept" THEN @ /\ el.otherRan ELSE @,
                        !.otherRan = FALSE]
    /\ UNCHANGED <<driver, sy, nonReadyVars>>

\* The executor's worker runs the job, and the loop is told to wake the task.
ExecutorRun ==
    /\ el.job = "pending"
    /\ LET r == SyncWebStage_is_ready([driver EXCEPT !.log = <<>>])
       IN  /\ driver' = r.d
           /\ el' = [el EXCEPT !.job = "done", !.future = r.out,
                               !.queue = Append(@, "poller")]
    /\ UNCHANGED <<sy, nonReadyVars>>

\* WebStage.until_ready resumed with the future's outcome: it returns, raises, or
\* awaits sleep(0), which yields to the loop.
AsyncResume ==
    /\ Running("poller")
    /\ el.pc = "awaiting"
    /\ el.job = "done"
    /\ LET next == WebStage_until_ready(el.future)
       IN  el' = [el EXCEPT !.pc = next,
                            !.last = Seen(el.future),
                            !.job = "none",
                            !.queue = IF next = "slept" THEN Append(Tail(@), "poller")
                                      ELSE Tail(@)]
    /\ UNCHANGED <<driver, sy, nonReadyVars>>

\* Another task of the loop that is always ready to run: it runs and yields.
OtherRuns ==
    /\ Running("other")
    /\ el' = [el EXCEPT !.queue = Append(Tail(@), "other"), !.otherRan = TRUE]
    /\ UNCHANGED <<driver, sy, nonReadyVars>>

\* The document leaves readyState complete (the page navigates or reloads itself).
PageUnloaded ==
    /\ driver.ready
    /\ driver' = [driver EXCEPT !.ready = FALSE]
    /\ UNCHANGED <<readyVars, nonReadyVars>>

PageCompletes ==
    /\ ~driver.ready
    /\ driver' = [driver EXCEPT !.ready = TRUE]
    /\ UNCHANGED <<readyVars, nonReadyVars>>

SessionFails ==
    /\ driver.fuel = Healthy
    /\ driver' = [driver EXCEPT !.fuel = 0]
    /\ UNCHANGED <<readyVars, nonReadyVars>>

ReadyIdle ==
    /\ sy = [pc |-> "returned", last |-> "ready"]
    /\ el = [queue |-> <<>>, pc |-> "returned", last |-> "ready", job |-> "none",
             future |-> Ret(Bool(TRUE)), otherRan |-> FALSE, yielded |-> TRUE]

ReadyNext ==
    \/ SyncPoll
    \/ SyncSleep
    \/ AsyncPoll
    \/ ExecutorRun
    \/ AsyncResume
    \/ OtherRuns
    \/ PageUnloaded
    \/ PageCompletes
    \/ SessionFails

(***************************************************************************)
(* The asynchronous facade: every WebStage operation hands the operation   *)
(* of self.sync to the executor through _nsync and returns its future.     *)
(***************************************************************************)
\* run_in_executor(None, lambda args, kwargs: fn(*args, **kwargs), args, kwargs): the
\* job the executor holds, which calls fn on args.
_nsync(fn, args) == [fn |-> fn, args |-> args]

WebStage_go(name) == _nsync("go", <<name>>)

WebStage_query_selector(selector) == _nsync("query_selector", <<selector>>)

WebStage_query_selector_one(selector) == _nsync("query_selector_one", <<selector>>)

WebStage_href == _nsync("href", <<>>)

\* Mutant: a wrapper bound to the neighbouring operation.
WebStage_refreshCallsHref == _nsync("href", <<>>)

WebStage_refresh == _nsync("refresh", <<>>)

WebStage_screenshot == _nsync("screenshot", <<>>)

WebStage_is_ready == _nsync("is_ready", <<>>)

WebStage_capture_cookies == _nsync("capture_cookies", <<>>)

WebStage_get_cookie(name) == _nsync("get_cookie", <<name>>)

\* The operation named method of the async facade, applied to args.
AsyncCall(method, args) ==
    CASE method = "go" -> WebStage_go(args[1])
      [] method = "query_selector" -> WebStage_query_selector(args[1])
      [] method = "query_selector_one" -> WebStage_query_selector_one(args[1])
      [] method = "href" -> WebStage_href
      [] method = "refresh" -> WebStage_refresh
      [] method = "screenshot" -> WebStage_screenshot
      [] method = "is_ready" -> WebStage_is_ready
      [] method = "capture_cookies" -> WebStage_capture_cookies
      [] method = "get_cookie" -> WebStage_get_cookie(args[1])

NoJob == [fn |-> "none", args |-> <<>>]
NoCall == [method |-> "none", args |-> <<>>]

\* await stage.<method>(*args): the call returns the future and the coroutine suspends.
Await(method, args) ==
    /\ aw.pc = "idle"
    /\ aw' = [aw EXCEPT !.pc = "awaiting", !.call = [method |-> method, args |-> args],
                        !.job = AsyncCall(method, args), !.invoked = <<>>]
    /\ UNCHANGED <<driver, nonAsyncVars>>

AwaitGo(name) ==
    /\ name.cls = "str" => driver.pos < MaxHist
    /\ Await("go", <<name>>)

AwaitQuerySelector(sel) ==
    /\ Await("query_selector", <<Str(sel)>>)

AwaitQuerySelectorOne(sel) ==
    /\ Await("query_selector_one", <<Str(sel)>>)

AwaitHref ==
    /\ Await("href", <<>>)

AwaitRefresh ==
    /\ Await("refresh", <<>>)

AwaitScreenshot ==
    /\ Await("screenshot", <<>>)

AwaitIsReady ==
    /\ Await("is_ready", <<>>)

AwaitCaptureCookies ==
    /\ Await("capture_cookies", <<>>)

AwaitGetCookie(name) ==
    /\ Await("get_cookie", <<Str(name)>>)

\* The executor's worker runs the job: one call of fn on args. aw.sync is what the
\* same-named operation of the sync facade, called with the arguments the async
\* operation was given, does to the session at that moment.
WorkerRuns ==
    /\ aw.pc = "awaiting"
    /\ aw.job # NoJob
    /\ LET d == [driver EXCEPT !.log = <<>>]
           r == SyncCall(d, aw.job.fn, aw.job.args)
       IN  /\ driver' = r.d
           /\ aw' = [aw EXCEPT !.pc = "done", !.job = NoJob, !.future = r.out,
                               !.invoked = Append(@, aw.job),
                               !.sync = SyncCall(d, aw.call.method, aw.call.args)]
    /\ UNCHANGED nonAsyncVars

\* The coroutine resumes with the future's result or exception.
Resume ==
    /\ aw.pc = "done"
    /\ aw' = [aw EXCEPT !.pc = "idle", !.result = aw.future]
    /\ UNCHANGED <<driver, nonAsyncVars>>

AsyncPageLoaded ==
    /\ ~driver.ready
    /\ driver' = [driver EXCEPT !.ready = TRUE]
    /\ UNCHANGED <<aw, nonAsyncVars>>

AsyncDegrade(k) ==
    /\ driver.fuel = Healthy
    /\ driver' = [driver EXCEPT !.fuel = k]
    /\ UNCHANGED <<aw, nonAsyncVars>>

AsyncIdle ==
    aw = [pc |-> "idle", call |-> NoCall, job |-> NoJob, future |-> Ret(None),
          invoked |-> <<>>, result |-> Ret(None),
          sync |-> [d |-> FreshSession, out |-> Ret(None)]]

AsyncNext ==
    \/ \E name \in GoTargets : AwaitGo(name)
    \/ \E sel \in Selectors : AwaitQuerySelector(sel)
    \/ \E sel \in Selectors : AwaitQuerySelectorOne(sel)
    \/ AwaitHref
    \/ AwaitRefresh
    \/ AwaitScreenshot
    \/ AwaitIsReady
    \/ AwaitCaptureCookies
    \/ \E name \in CookieNames : AwaitGetCookie(name)
    \/ WorkerRuns
    \/ Resume
    \/ AsyncPageLoaded
    \/ \E k \in 0..MaxFuel : AsyncDegrade(k)

(***************************************************************************)
(* Specifications.                                                         *)
(***************************************************************************)
\* A test that declares steps on the stage of the webstage fixture.
StepInit == StepIdle /\ driver = FreshSession /\ NavIdle /\ GenIdle /\ FixtureIdle /\ ReadyIdle /\ AsyncIdle
StepSpec == StepInit /\ [][StepNext]_vars

\* A test that drives the session through the sync facade.
NavInit == StepIdle /\ driver \in Sessions /\ NavIdle /\ GenIdle /\ FixtureIdle /\ ReadyIdle /\ AsyncIdle
NavSpec == NavInit /\ [][NavNext]_vars

\* The collection of one test function under some command line and configuration file.
GenInit == StepIdle /\ driver = FreshSession /\ NavIdle /\ gen \in GenInputs /\ FixtureIdle /\ ReadyIdle /\ AsyncIdle
GenSpec == GenInit /\ [][GenNext]_vars

\* A run of test invocations that use the webstage fixture. pytest runs the finalizers
\* of an invocation whose test has ended, whatever its outcome.
FixtureInit ==
    /\ StepIdle /\ driver = FreshSession /\ NavIdle /\ GenIdle
    /\ \E opts \in HeadlessOptions : fx = NewTest(1, opts)
    /\ sessions = <<>>
    /\ ReadyIdle /\ AsyncIdle
FixtureSpec == FixtureInit /\ [][FixtureNext]_vars /\ WF_vars(Teardown)

\* A thread that called SyncWebStage.until_ready, and a task that awaits
\* WebStage.until_ready beside another task, on a page that loads or not. Threads and
\* the event loop keep running; nothing makes the page load.
ReadyInit ==
    /\ StepIdle /\ NavIdle /\ GenIdle /\ FixtureIdle /\ AsyncIdle
    /\ driver \in [hist : {<<"u1">>}, pos : {1}, jar : {<<>>}, ready : BOOLEAN,
                   fuel : {Healthy}, log : {<<>>}]
    /\ sy = [pc |-> "poll", last |-> "none"]
    /\ \E q \in {<<"poller", "other">>, <<"other", "poller">>} :
           el = [queue |-> q, pc |-> "start", last |-> "none", job |-> "none",
                 future |-> Ret(None), otherRan |-> FALSE, yielded |-> TRUE]
ReadyFairness ==
    /\ WF_vars(SyncPoll) /\ WF_vars(SyncSleep)
    /\ WF_vars(AsyncPoll) /\ WF_vars(ExecutorRun) /\ WF_vars(AsyncResume)
    /\ WF_vars(OtherRuns)
ReadySpec == ReadyInit /\ [][ReadyNext]_vars /\ ReadyFairness

\* A coroutine that awaits the operations of the async facade, one after the other.
AsyncInit ==
    /\ StepIdle /\ NavIdle /\ GenIdle /\ FixtureIdle /\ ReadyIdle /\ AsyncIdle
    /\ driver \in Sessions
AsyncSpec == AsyncInit /\ [][AsyncNext]_vars

(***************************************************************************)
(* Properties of the stage tree (StepSpec).                                *)
(***************************************************************************)
OnChild(c) == Truthy(stages[cms[c].self].parent)
Opened(c) == cms[c].state \in {"entered", "exited"}

\* C1: opening step(description) on a stage whose parent is set fails with the
\* nesting-violation TypeError, whatever the description: such a context manager is
\* never entered, yields no stage, and no stage ever has a child stage as its parent.
NestedStepFails ==
    \A c \in 1..Len(cms) :
        OnChild(c) =>
            /\ ~Opened(c)
            /\ cms[c].yielded = NoStage
            /\ cms[c].state # "created" =>
                   cms[c].state = "raised" /\ cms[c].error = NestingError
            /\ \A s \in 1..Len(stages) : stages[s].parent # cms[c].self

NestedStepFailsWitness ==
    \E c, k \in 1..Len(cms) :
        /\ OnChild(c) /\ cms[c].state = "raised" /\ cms[c].description = "a"
        /\ OnChild(k) /\ cms[k].state = "raised" /\ cms[k].description = "b"

\* C2 as stated: the nesting error is raised by the call step(description) itself, so
\* no state holds a context manager that a call on a child stage returned.
NestingRaisedAtCall ==
    \A c \in 1..Len(cms) : OnChild(c) => cms[c].state # "created"

\* C2 amended: the call step(description) on a child stage returns a context manager
\* without raising and without running any of the body; the nesting error is raised
\* on entry into the scoped block, before any stage is created: every stage but the
\* root was created by exactly one successful entry.
NestingRaisedAtEntry ==
    /\ \A c \in 1..Len(cms) :
           OnChild(c) =>
               /\ cms[c].raisedAt # "call"
               /\ cms[c].state = "created" => cms[c].error = None
               /\ cms[c].state # "created" =>
                      /\ cms[c].state = "raised"
                      /\ cms[c].raisedAt = "enter"
                      /\ cms[c].error = NestingError
    /\ Len(stages) = 1 + Cardinality({c \in 1..Len(cms) : Opened(c)})

NestingRaisedAtEntryWitness ==
    \E c, k \in 1..Len(cms) :
        /\ OnChild(c) /\ cms[c].state = "created"
        /\ OnChild(k) /\ cms[k].raisedAt = "enter"

RootDeclared == SelectSeq(declared, LAMBDA x : x.self = Root)

\* C3: the root's children are exactly the stages created by the step blocks opened on
\* it, one per block, pairwise distinct, in declaration order, each with the
\* description it was declared with, the root as parent and the root's sync facade;
\* a block's exit, normal or by an exception, removes and reorders nothing.
ChildrenInDeclarationOrder ==
    LET kids == stages[Root].children
    IN  /\ Len(kids) = Len(RootDeclared)
        /\ Len(kids) = Cardinality({c \in 1..Len(cms) : cms[c].self = Root /\ Opened(c)})
        /\ \A i \in 1..Len(kids) :
               /\ kids[i] = RootDeclared[i].child
               /\ kids[i] \in 2..Len(stages)
               /\ stages[kids[i]].description = Str(RootDeclared[i].description)
               /\ stages[kids[i]].sync = stages[Root].sync
               /\ stages[kids[i]].parent = Root
        /\ \A i, j \in 1..Len(kids) : i # j => kids[i] # kids[j]

ChildrenInDeclarationOrderWitness ==
    /\ Len(stages[Root].children) >= 2
    /\ stages[stages[Root].children[1]].description = Str("b")
    /\ stages[stages[Root].children[2]].description = Str("a")
    /\ \E c, k \in 1..Len(cms) :
           /\ cms[c].state = "exited" /\ cms[c].propagated = "AssertionError"
           /\ cms[k].state = "exited" /\ cms[k].propagated = "none"

\* C4: the tree has depth at most one: the root has no parent, and every stage in a
\* children list has the root as its parent and no children of its own.
DepthAtMostOne ==
    /\ stages[Root].parent = NoStage
    /\ \A s \in 1..Len(stages) :
           \A i \in 1..Len(stages[s].children) :
               LET k == stages[s].children[i]
               IN  /\ stages[k].parent = Root
                   /\ stages[k].children = <<>>
    /\ \A s \in 2..Len(stages) : stages[s].parent = Root

DepthAtMostOneWitness ==
    /\ Len(stages[Root].children) >= 2
    /\ \E c \in 1..Len(cms) :
           cms[c].self # Root /\ cms[c].state = "raised"

(***************************************************************************)
(* Properties of the sync facade (NavSpec).                                *)
(***************************************************************************)
Repeated(op, n) == [i \in 1..n |-> [op |-> op, arg |-> ""]]

\* The calls go(n) issues for n # 0, op being forward or back: all |n| of them when it
\* returns, and the first k, the last of which failed, when the session raised.
HistoryCalls(op, n) ==
    /\ lastOut.kind = "return" =>
           /\ driver.log = Repeated(op, n)
           /\ driver.hist = lastOp.pre.hist
           /\ driver.pos = IF op = "forward"
                           THEN (IF lastOp.pre.pos + n < Len(driver.hist)
                                 THEN lastOp.pre.pos + n ELSE Len(driver.hist))
                           ELSE (IF lastOp.pre.pos > n THEN lastOp.pre.pos - n ELSE 0)
    /\ lastOut.kind = "raise" =>
           /\ lastOut = Raise(SessionError)
           /\ \E k \in 1..n : driver.log = Repeated(op, k) /\ lastOp.pre.fuel = k - 1
    /\ lastOp.pre.fuel = Healthy \/ lastOp.pre.fuel >= n => lastOut.kind = "return"

\* C5: go(n) issues exactly n forward calls and nothing else for n > 0, exactly |n|
\* back calls and nothing else for n < 0, and no driver call for n = 0; go(url) issues
\* exactly one navigate-to-URL call with that URL and no history call.
GoIssuesExactCalls ==
    lastOp.fn = "go" =>
        LET name == lastOp.args[1]
        IN  IF name.cls = "int"
            THEN IF name.v > 0 THEN HistoryCalls("forward", name.v)
                 ELSE IF name.v < 0 THEN HistoryCalls("back", 0 - name.v)
                 ELSE /\ driver.log = <<>> /\ lastOut.kind = "return"
                      /\ driver.pos = lastOp.pre.pos /\ driver.hist = lastOp.pre.hist
            ELSE driver.log = <<[op |-> "get", arg |-> name.v]>>

GoIssuesExactCallsWitness ==
    /\ lastOp.fn = "go"
    /\ lastOp.args[1] = Int_(0 - MaxGo)
    /\ lastOut.kind = "return"
    /\ Len(driver.log) = MaxGo
    /\ driver.pos < lastOp.pre.pos

\* What the caller gets when the session's answer is r and a miss is not an error.
Propagated(r) == r.out.kind = "raise" /\ r.out.exc # "NoSuchElementException"

\* C6: query_selector_one, on a stage and on an element, returns None when the selector
\* matches nothing and the handle of the first match otherwise; get_cookie returns None
\* when the session has no cookie of that name and the Cookie built from it otherwise;
\* every other failure of the session reaches the caller unchanged.
NotFoundIsAbsent ==
    LET pre == lastOp.pre
    IN  /\ lastOp.fn = "query_selector_one" =>
               LET sel == lastOp.args[1].v
                   m == DocMatches(CurrentUrl(pre), sel)
                   r == driver_find_element(pre, sel)
               IN  /\ Propagated(r) => lastOut = r.out
                   /\ ~Propagated(r) /\ m = <<>> => lastOut.kind = "return" /\ lastOut.value = None
                   /\ ~Propagated(r) /\ m # <<>> =>
                          lastOut.kind = "return" /\ lastOut.value = Element(SyncElement(m[1]))
        /\ lastOp.fn = "element.query_selector_one" =>
               LET e == lastOp.args[1].v
                   sel == lastOp.args[2].v
                   m == ElemMatches(CurrentUrl(pre), e, sel)
                   r == element_find_element(pre, e, sel)
               IN  /\ Propagated(r) => lastOut = r.out
                   /\ ~Propagated(r) /\ m = <<>> => lastOut.kind = "return" /\ lastOut.value = None
                   /\ ~Propagated(r) /\ m # <<>> =>
                          lastOut.kind = "return" /\ lastOut.value = Element(SyncElement(m[1]))
        /\ lastOp.fn = "get_cookie" =>
               LET name == lastOp.args[1].v
                   found == {i \in 1..Len(pre.jar) : pre.jar[i].name = name}
               IN  /\ Down(pre) => lastOut = Raise(SessionError)
                   /\ ~Down(pre) /\ found = {} => lastOut.kind = "return" /\ lastOut.value = None
                   /\ ~Down(pre) /\ found # {} =>
                          /\ lastOut.kind = "return"
                          /\ \E i \in found :
                                 lastOut.value =
                                     [cls |-> "Cookie", name |-> name,
                                      value |-> pre.jar[i].value,
                                      same_site |-> pre.jar[i].sameSite]

NotFoundIsAbsentWitness ==
    /\ lastOp.fn = "query_selector_one"
    /\ lastOp.args[1].v = "x"
    /\ CurrentUrl(lastOp.pre) = "u1"
    /\ lastOut.kind = "return"
    /\ lastOut.value = None

(***************************************************************************)
(* Properties of the generated variants (GenSpec).                         *)
(***************************************************************************)
CommandLineVariants(g) ==
    UNION {{<<n, v, "auto">> : v \in Range(VersionsOf(g, n))} : n \in Range(g.browser)}

\* C7: when --browser names at least one (supported) browser, the generated variants
\* are exactly the (name, version) pairs of the command line with cache policy auto:
\* the browsers of the configuration file add none.
ConfigAppliedOnlyWithoutBrowserOption ==
    (/\ gen.state = "generated"
     /\ gen.requested
     /\ gen.browser # <<>>
     /\ gen.out.kind = "parametrize")
        => /\ Range(gen.out.variants) = CommandLineVariants(gen)
           /\ Len(gen.out.variants) = Cardinality(CommandLineVariants(gen))

(***************************************************************************)
(* Properties of the browser fixture (FixtureSpec).                        *)
(***************************************************************************)
Obtained == fx.driver # NoSession
SessionOpen == Obtained /\ sessions[fx.driver].open
TestExited == fx.phase = "teardown"

\* C8: a test invocation that obtained a session from the browser fixture has it shut
\* down on every exit path: once the test has ended (passed, failed or aborted) the
\* open session is eventually closed, and no session is open once an invocation has
\* finished.
SessionClosedOnEveryExit ==
    /\ [](fx.phase = "finished" => \A i \in 1..Len(sessions) : ~sessions[i].open)
    /\ \A o \in Outcomes :
           (TestExited /\ fx.outcome = o /\ SessionOpen) ~> (Obtained /\ ~SessionOpen)

SessionClosedOnEveryExitWitness ==
    /\ fx.phase = "finished"
    /\ fx.outcome = "aborted"
    /\ Obtained
    /\ ~sessions[fx.driver].open
    /\ Len(sessions) = MaxTests

(***************************************************************************)
(* Properties of until_ready (ReadySpec).                                  *)
(***************************************************************************)
StaysReady == <>[](driver.ready /\ ~Down(driver))

\* C9: until_ready, blocking or awaited, returns only when its most recent is_ready
\* poll was true; if the page becomes and stays ready it eventually returns; if the
\* page is never ready it never returns; and between two consecutive polls of the
\* awaited variant another ready task of the loop has run.
UntilReadyPollsUntilReady ==
    /\ [](/\ sy.pc = "returned" => sy.last = "ready"
          /\ el.pc = "returned" => el.last = "ready"
          /\ el.yielded)
    /\ StaysReady => <>(sy.pc = "returned")
    /\ StaysReady => <>(el.pc = "returned")
    /\ [](~driver.ready) => [](sy.pc # "returned" /\ el.pc # "returned")

UntilReadyPollsUntilReadyWitness ==
    /\ sy.pc = "returned"
    /\ el.pc = "returned"
    /\ el.otherRan
    /\ driver.ready

(***************************************************************************)
(* Properties of the async facade (AsyncSpec).                             *)
(***************************************************************************)
\* C10: every operation of the async facade invokes the same-named sync operation
\* exactly once with exactly the arguments it was given; its future resolves to that
\* operation's result or rejects with its exception; and the session is left as the
\* sync operation leaves it, so awaited async calls drive the session as sync calls do.
AsyncMirrorsSync ==
    /\ aw.pc \in {"done", "idle"} /\ aw.call # NoCall =>
           /\ aw.invoked = <<[fn |-> aw.call.method, args |-> aw.call.args]>>
           /\ aw.future = aw.sync.out
    /\ aw.pc = "done" =>
           /\ driver.log = aw.sync.d.log
           /\ driver.pos = aw.sync.d.pos
           /\ driver.hist = aw.sync.d.hist
           /\ driver.jar = aw.sync.d.jar
    /\ aw.pc = "idle" /\ aw.call # NoCall => aw.result = aw.sync.out

AsyncMirrorsSyncWitness ==
    /\ aw.pc = "idle"
    /\ aw.call.method = "refresh"
    /\ aw.result.kind = "return"
    /\ driver.log = <<[op |-> "refresh", arg |-> ""]>>

============================================================================
